---- MODULE Spec2Model ----
\* playwright-s3-snapshot: the snapshot pipeline (render -> stage -> upload ->
\* cleanup -> record) and its drivers: the CLI retry/batch loop, the serverless
\* single handler and the serverless batch handler.
\*
\* Strings are sequences of tokens; a token is a TLA+ string. The separator "/"
\* of a key prefix is always a token of its own, so rstrip("/") is computed on
\* the sequence. Python's None and "" are both the empty sequence (both falsy).
\* Bucket names and numeric options are sequences of single characters.
EXTENDS Integers, Sequences, FiniteSets, TLC

\* ---------------------------------------------------------------- bounds
MaxClock == 2          \* the wall clock runs over ticks 0..MaxClock
TicksPerSecond == 2    \* ticks in one wall-clock second
MaxUrls == 3           \* longest URL list of a run
MaxRetries == 3        \* largest --retries value

\* ------------------------------------------------------- program constants
StatusOk == 200
StatusError == 500
ExitSuccess == 0
ExitFailure == 1
ExitInterrupted == 130
ExitUsage == 2         \* the status argparse's parser.error() exits with
ExampleSize == 55531

\* ------------------------------------------------------------ input sets
AllUrls == << <<"https://", "example.com">>, <<"https://", "example.org">>,
             <<"https://", "example.net">>, <<"https://", "example.edu">> >>
TestBucket == <<"t", "e", "s", "t", "-", "b", "u", "c", "k", "e", "t">>
Prefixes == { <<>>, <<"qa">>, <<"qa", "/">> }
TempDir == <<"/tmp", "/">>

\* ------------------------------------------------------ string functions
Digit == [d \in 0..9 |-> CASE d = 0 -> "0" [] d = 1 -> "1" [] d = 2 -> "2" [] d = 3 -> "3"
                           [] d = 4 -> "4" [] d = 5 -> "5" [] d = 6 -> "6" [] d = 7 -> "7"
                           [] d = 8 -> "8" [] d = 9 -> "9"]

TwoDigits(n) == << Digit[(n \div 10) % 10], Digit[n % 10] >>

\* The whole seconds of a clock reading: strftime drops the sub-second part.
Seconds(t) == (t \div TicksPerSecond) % 60

\* timestamp.strftime("%Y-%m-%d_%H%M%S")
Strftime(t) == <<"2025-07-15_1430">> \o TwoDigits(Seconds(t))

\* timestamp.isoformat(): keeps the sub-second part
IsoFormat(t) == <<"2025-07-15T14:30:">> \o TwoDigits(Seconds(t)) \o <<".", Digit[t % TicksPerSecond]>>

\* str.rstrip("/")
RECURSIVE RStrip(_)
RStrip(s) == IF s # <<>> /\ s[Len(s)] = "/" THEN RStrip(SubSeq(s, 1, Len(s) - 1)) ELSE s

\* Path.suffix of a path whose last token is its extension
Suffix(path) == IF path # <<>> /\ path[Len(path)] \in {".png", ".jpg", ".pdf"}
                THEN << path[Len(path)] >> ELSE <<>>

\* ------------------------------------------------------------ filesystem
Exists(files, path) == path \in DOMAIN files
WriteFile(files, path, data) ==
    [q \in DOMAIN files \cup {path} |-> IF q = path THEN data ELSE files[q]]
\* Path.unlink(missing_ok=True)
Unlink(files, path) == [q \in DOMAIN files \ {path} |-> files[q]]
EmptyMap == [q \in {} |-> <<>>]

\* ------------------------------------------------------------- uploader
\* seeded fault: the separator is appended without stripping the prefix first
NormalizePrefix_NoStrip(key_prefix) ==
    IF key_prefix # <<>> THEN key_prefix \o <<"/">> ELSE key_prefix

\* S3Uploader.upload_file: the prefix normalisation
NormalizePrefix(key_prefix) ==
    IF key_prefix # <<>> THEN RStrip(key_prefix) \o <<"/">> ELSE key_prefix

\* seeded fault: the key carries the sub-second part of the timestamp
UploadKey_SubSecond(file_path, key_prefix, timestamp) ==
    NormalizePrefix(key_prefix) \o Strftime(timestamp)
        \o <<".", Digit[timestamp % TicksPerSecond]>> \o Suffix(file_path)

\* S3Uploader.upload_file: the key of the object; timestamp is the uploader's own
UploadKey(file_path, key_prefix, timestamp) ==
    NormalizePrefix(key_prefix) \o Strftime(timestamp) \o Suffix(file_path)

\* S3Uploader.upload_file: the URL it returns
S3Url(bucket_name, s3_key) == <<"https://">> \o bucket_name \o <<".s3.amazonaws.com/">> \o s3_key

UploadErrors == {"NoCredentialsError", "ClientError"}

\* a key a dict does not hold, an option the command line does not give
Absent == <<"<absent>">>

\* ---------------------------------------------------------- exceptions
NoExc == [type |-> "", msg |-> ""]
Exc(type, msg) == [type |-> type, msg |-> msg]

\* ------------------------------------------------------ take_snapshot_to_s3
NoRecord == [url |-> <<>>, s3_url |-> <<>>, s3_key |-> <<>>, timestamp |-> <<>>, file_size |-> -1]

IdleOp == [pc |-> "idle", url |-> <<>>, bucket_name |-> <<>>, key_prefix |-> <<>>,
           cleanup_local |-> TRUE, timestamp |-> -1, temp_file |-> <<>>,
           local_path |-> <<>>, file_size |-> -1, upload_key |-> <<>>,
           s3_url |-> <<>>, result |-> NoRecord, exc |-> NoExc, stages |-> <<>>]

\* the stages of the call so far, in the order they ended
Stage(o, done) == [o EXCEPT !.stages = @ \o done]

\* lines 53-58: T is read once, the staged path is built from it
TempFile(timestamp) == TempDir \o <<"screenshot_">> \o Strftime(timestamp) \o <<".png">>

SnapCall(url, bucket_name, key_prefix, cleanup_local, now) ==
    [IdleOp EXCEPT !.pc = "render", !.url = url, !.bucket_name = bucket_name,
                   !.key_prefix = key_prefix, !.cleanup_local = cleanup_local,
                   !.timestamp = now, !.temp_file = TempFile(now)]

\* seeded fault: the handler re-raises without removing the staged file
ErrorCleanup_KeepsFile(files, temp_file) == files

\* lines 100-104: the handler of every Exception raised in the try block
ErrorCleanup(files, temp_file) ==
    IF Exists(files, temp_file) THEN Unlink(files, temp_file) ELSE files

\* lines 83-86: the key reported in the record
RecordKey(key_prefix, timestamp) ==
    (IF key_prefix # <<>> THEN RStrip(key_prefix) \o <<"/">> ELSE key_prefix)
        \o Strftime(timestamp) \o <<".png">>

\* seeded fault: unlink() without missing_ok, which raises on a missing path
missing_ok_False == FALSE

\* lines 90 and 103: unlink(missing_ok=True)
missing_ok == TRUE

\* seeded fault: the staged file is removed whatever cleanup_local says
SuccessCleanup_Always(files, local_path, cleanup_local) == Unlink(files, local_path)

\* lines 88-90: cleanup on the success path
SuccessCleanup(files, local_path, cleanup_local) ==
    IF cleanup_local THEN Unlink(files, local_path) ELSE files

\* lines 92-98
MakeRecord(o) == [url |-> o.url, s3_url |-> o.s3_url,
                  s3_key |-> RecordKey(o.key_prefix, o.timestamp),
                  timestamp |-> IsoFormat(o.timestamp), file_size |-> o.file_size]

\* S3Uploader.upload_file, lines 69-70: upload_to_s3 (line 150) passes no
\* timestamp, so the uploader reads the clock itself
UploaderTimestamp(now) == now

\* the staged image: what was rendered and its size in bytes
Image(url) == [url |-> url, st_size |-> ExampleSize]

MaxCalls == 2          \* calls of take_snapshot_to_s3 made by a library user

\* seeded fault: a failed stage is swallowed and a record is returned all the same
SnapRaise_ReturnsRecord(o, e) ==
    [o EXCEPT !.pc = "returned", !.exc = e, !.result = MakeRecord(o)]

\* line 104: the exception leaves take_snapshot_to_s3
SnapRaise(o, e) == [o EXCEPT !.pc = "raised", !.exc = e]

\* ------------------------------------------------- argument validators
\* The outcome of a call: the value returned or the exception raised.
Return(v) == [raised |-> FALSE, value |-> v, exc |-> NoExc]
Raise(e) == [raised |-> TRUE, value |-> <<>>, exc |-> e]

\* A URL is a sequence of tokens: a scheme with its "://" is one token, each
\* of "/", "?", "#", ":" and "@" is a token of its own, and any other token
\* is a run of characters free of all of them.
Schemes == {"http://", "https://"}
Delimiters == {"/", "?", "#"}

\* url.startswith(('http://', 'https://'))
StartsWithScheme(url) == url # <<>> /\ url[1] \in Schemes

\* the tokens of s before the first one that is in stop
RECURSIVE TakeUntil(_, _)
TakeUntil(s, stop) ==
    IF s = <<>> \/ s[1] \in stop THEN <<>> ELSE << s[1] >> \o TakeUntil(Tail(s), stop)

\* the tokens of s after the last token c; s itself when c does not occur
RECURSIVE AfterLast(_, _)
AfterLast(s, c) ==
    IF \A j \in 1..Len(s) : s[j] # c THEN s ELSE AfterLast(Tail(s), c)

\* urlparse(url).netloc of a URL that starts with http:// or https://: what
\* follows the "//" up to the first "/", "?" or "#"
Netloc(url) == IF StartsWithScheme(url) THEN TakeUntil(Tail(url), Delimiters) ELSE <<>>

\* urlparse(url).hostname: the netloc without its userinfo and its port
Hostname(url) == TakeUntil(AfterLast(Netloc(url), "@"), {":"})

\* cli.py lines 16-25
validate_url(url) ==
    LET u == IF ~StartsWithScheme(url) THEN <<"https://">> \o url ELSE url
    IN IF Netloc(u) = <<>> THEN Raise(Exc("ArgumentTypeError", "Invalid URL")) ELSE Return(u)

\* A bucket name is a sequence of characters.
Lower == {"a", "b", "c", "d", "e", "f", "g", "h", "i", "j", "k", "l", "m",
          "n", "o", "p", "q", "r", "s", "t", "u", "v", "w", "x", "y", "z"}
Digits == {Digit[d] : d \in 0..9}
MinBucketLen == 3
MaxBucketLen == 63

\* the pattern [a-z0-9][a-z0-9\-]*[a-z0-9] matching the whole of s
FullMatch(s) ==
    /\ Len(s) >= 2
    /\ s[1] \in Lower \cup Digits /\ s[Len(s)] \in Lower \cup Digits
    /\ \A j \in 2..(Len(s) - 1) : s[j] \in Lower \cup Digits \cup {"-"}

\* re.match(r'^[a-z0-9][a-z0-9\-]*[a-z0-9]$', bucket): without re.MULTILINE
\* "$" matches at the end of the string and also just before a newline that
\* is the last character of the string
ReMatch(bucket) ==
    \/ FullMatch(bucket)
    \/ /\ bucket # <<>> /\ bucket[Len(bucket)] = "\n"
       /\ FullMatch(SubSeq(bucket, 1, Len(bucket) - 1))

\* 'ab' in bucket
Contains(s, a, b) == \E j \in 1..(Len(s) - 1) : s[j] = a /\ s[j + 1] = b

\* cli.py lines 28-42
validate_s3_bucket_name(bucket) ==
    IF Len(bucket) < MinBucketLen \/ Len(bucket) > MaxBucketLen
    THEN Raise(Exc("ArgumentTypeError", "S3 bucket name must be between 3 and 63 characters"))
    ELSE IF ~ReMatch(bucket)
    THEN Raise(Exc("ArgumentTypeError", "S3 bucket name must start/end with lowercase letter or number, contain only lowercase letters, numbers, and hyphens"))
    ELSE IF Contains(bucket, ".", ".") \/ Contains(bucket, ".", "-") \/ Contains(bucket, "-", ".")
    THEN Raise(Exc("ArgumentTypeError", "S3 bucket name cannot contain consecutive periods or period-hyphen combinations"))
    ELSE Return(bucket)

\* int(value) of a sequence of characters: an optional sign and then digits
\* only, at least one; anything else is a ValueError
Unsigned(value) == IF value # <<>> /\ value[1] \in {"+", "-"} THEN Tail(value) ELSE value
IsInt(value) == Unsigned(value) # <<>> /\ \A j \in 1..Len(Unsigned(value)) : Unsigned(value)[j] \in Digits
DigitValue(c) == CHOOSE d \in 0..9 : Digit[d] = c
RECURSIVE Decimal(_)
Decimal(s) == IF s = <<>> THEN 0 ELSE 10 * Decimal(SubSeq(s, 1, Len(s) - 1)) + DigitValue(s[Len(s)])
Int_(value) == IF value[1] = "-" THEN 0 - Decimal(Unsigned(value)) ELSE Decimal(Unsigned(value))

\* cli.py lines 45-53
validate_positive_int(value) ==
    IF ~IsInt(value) THEN Raise(Exc("ArgumentTypeError", "Invalid integer"))
    ELSE IF Int_(value) <= 0 THEN Raise(Exc("ArgumentTypeError", "Value must be positive"))
    ELSE Return(Int_(value))

VARIABLES
    clock,      \* datetime.now(), in ticks
    fs,         \* the local filesystem: path -> file
    s3,         \* the remote store: <<bucket, key>> -> object
    entry,      \* the entry point of the run: "api", "cli", "lambda", "batch"
    op,         \* the activation of take_snapshot_to_s3
    calls,      \* take_snapshot_to_s3 calls made so far
    cli,        \* the activation of the CLI's main()
    hist,       \* per URL position: attempts started, their results, sleeps, outcome;
                \* where main() stood when the interrupt arrived; the uploads made
    env,        \* os.environ of a serverless run: BUCKET_NAME, KEY_PREFIX
    lam,        \* the activation of lambda_handler
    bat,        \* the activation of batch_handler
    pure,       \* the call of a pure function: its name, argument and outcome
    shot,       \* the activation of take_screenshot
    ops         \* the activations of take_snapshot_to_s3 that share an event loop

vars == <<clock, fs, s3, entry, op, calls, cli, hist, env, lam, bat, pure, shot, ops>>

\* ------------------------------------------------------------ environment
\* datetime.now(): time passes between two readings of the clock, never backwards
Later == clock..MaxClock

\* the paths the running activation has staged and still reads
StagedPaths ==
    (IF op.pc \in {"stat", "upload", "finish"} THEN {op.local_path} ELSE {})
        \cup (IF cli.pc = "local_check" THEN {cli.result_path} ELSE {})

\* another process removes a staged file
ExternalUnlink ==
    /\ \E path \in StagedPaths \cap DOMAIN fs : fs' = Unlink(fs, path)
    /\ UNCHANGED <<ops, shot, pure, env, lam, bat, clock, s3, entry, op, calls, cli, hist>>

\* ------------------------------------------- take_snapshot_to_s3, step by step
\* take_screenshot returned: the image is on disk at temp_file
SnapRenderOk ==
    /\ op.pc = "render"
    /\ fs' = WriteFile(fs, op.temp_file, Image(op.url))
    /\ op' = [Stage(op, <<"render">>) EXCEPT !.pc = "stat", !.local_path = op.temp_file]
    /\ UNCHANGED <<ops, shot, pure, env, lam, bat, clock, s3, entry, calls, cli, hist>>

\* take_screenshot raised, before or after the browser wrote the file
SnapRenderFail ==
    /\ op.pc = "render"
    /\ \E wrote \in BOOLEAN :
         fs' = ErrorCleanup(IF wrote THEN WriteFile(fs, op.temp_file, Image(op.url)) ELSE fs,
                            op.temp_file)
    /\ op' = SnapRaise(Stage(op, <<"render failed">>),
                       Exc("TimeoutError", "Timeout 30000ms exceeded"))
    /\ UNCHANGED <<ops, shot, pure, env, lam, bat, clock, s3, entry, calls, cli, hist>>

\* line 71: Path(local_path).stat().st_size
SnapStatOk ==
    /\ op.pc = "stat"
    /\ Exists(fs, op.local_path)
    /\ op' = [Stage(op, <<"size">>) EXCEPT !.pc = "upload",
                                           !.file_size = fs[op.local_path].st_size]
    /\ UNCHANGED <<ops, shot, pure, env, lam, bat, clock, fs, s3, entry, calls, cli, hist>>

\* seeded fault: the failed size read is swallowed and the call goes on to the upload
SnapStatFail_GoesOn ==
    /\ op.pc = "stat"
    /\ ~Exists(fs, op.local_path)
    /\ op' = [Stage(op, <<"size failed">>) EXCEPT !.pc = "upload", !.file_size = 0]
    /\ UNCHANGED <<ops, shot, pure, env, lam, bat, clock, fs, s3, entry, calls, cli, hist>>

\* line 71 raises: the staged file is gone
SnapStatFail ==
    /\ op.pc = "stat"
    /\ ~Exists(fs, op.local_path)
    /\ fs' = ErrorCleanup(fs, op.temp_file)
    /\ op' = SnapRaise(Stage(op, <<"size failed">>),
                       Exc("FileNotFoundError", "No such file or directory"))
    /\ UNCHANGED <<ops, shot, pure, env, lam, bat, clock, s3, entry, calls, cli, hist>>

\* seeded fault: the existence check comes after the transfer, an empty object is stored
SnapUploadNotFound_AfterTransfer ==
    /\ op.pc = "upload"
    /\ ~Exists(fs, op.local_path)
    /\ s3' = WriteFile(s3, <<op.bucket_name, UploadKey(op.local_path, op.key_prefix, clock)>>,
                       [url |-> op.url, st_size |-> 0])
    /\ fs' = ErrorCleanup(fs, op.temp_file)
    /\ op' = SnapRaise(Stage(op, <<"upload called", "upload failed">>),
                       Exc("FileNotFoundError", "File not found"))
    /\ UNCHANGED <<ops, shot, pure, env, lam, bat, clock, entry, calls, cli, hist>>

\* upload_file lines 65-67
SnapUploadNotFound ==
    /\ op.pc = "upload"
    /\ ~Exists(fs, op.local_path)
    /\ fs' = ErrorCleanup(fs, op.temp_file)
    /\ op' = SnapRaise(Stage(op, <<"upload called", "upload failed">>),
                       Exc("FileNotFoundError", "File not found"))
    /\ UNCHANGED <<ops, shot, pure, env, lam, bat, clock, s3, entry, calls, cli, hist>>

\* upload_file lines 69-91: the object is stored and its URL returned
SnapUploadOk ==
    /\ op.pc = "upload"
    /\ Exists(fs, op.local_path)
    /\ \E now \in Later :
         LET s3_key == UploadKey(op.local_path, op.key_prefix, UploaderTimestamp(now))
         IN /\ clock' = now
            /\ s3' = WriteFile(s3, <<op.bucket_name, s3_key>>, fs[op.local_path])
            /\ op' = [Stage(op, <<"upload called", "upload returned">>)
                         EXCEPT !.pc = "finish", !.upload_key = s3_key,
                                !.s3_url = S3Url(op.bucket_name, s3_key)]
            /\ hist' = [hist EXCEPT !.puts = Append(@,
                          [bucket_name |-> op.bucket_name, key_prefix |-> op.key_prefix,
                           timestamp |-> UploaderTimestamp(now), file_path |-> op.local_path,
                           s3_key |-> s3_key, url |-> op.url])]
    /\ UNCHANGED <<ops, shot, pure, env, lam, bat, fs, entry, calls, cli>>

\* upload_file lines 93-107: the transfer failed, nothing is stored
SnapUploadFail ==
    /\ op.pc = "upload"
    /\ Exists(fs, op.local_path)
    /\ \E type \in UploadErrors :
         op' = SnapRaise(Stage(op, <<"upload called", "upload failed">>),
                         Exc(type, "upload failed"))
    /\ fs' = ErrorCleanup(fs, op.temp_file)
    /\ UNCHANGED <<ops, shot, pure, env, lam, bat, clock, s3, entry, calls, cli, hist>>

\* lines 83-98: key for the record, cleanup, return; an unlink that raised
\* would leave through the handler of lines 100-104
SnapFinish ==
    /\ op.pc = "finish"
    /\ IF op.cleanup_local /\ ~missing_ok /\ ~Exists(fs, op.local_path)
       THEN /\ fs' = ErrorCleanup(fs, op.temp_file)
            /\ op' = SnapRaise(Stage(op, <<"cleanup failed">>),
                               Exc("FileNotFoundError", "No such file or directory"))
       ELSE /\ fs' = SuccessCleanup(fs, op.local_path, op.cleanup_local)
            /\ op' = [Stage(op, IF op.cleanup_local THEN <<"cleanup">> ELSE <<>>)
                         EXCEPT !.pc = "returned", !.result = MakeRecord(op)]
    /\ UNCHANGED <<ops, shot, pure, env, lam, bat, clock, s3, entry, calls, cli, hist>>

Snapshot ==
    \/ SnapRenderOk \/ SnapRenderFail \/ SnapStatOk \/ SnapStatFail
    \/ SnapUploadNotFound \/ SnapUploadOk \/ SnapUploadFail \/ SnapFinish

\* --------------------------------------------- a library user of the function
ApiCall ==
    /\ entry = "api"
    /\ op.pc \in {"idle", "returned", "raised"}
    /\ calls < MaxCalls
    /\ \E key_prefix \in Prefixes, cleanup_local \in BOOLEAN, now \in Later :
         /\ clock' = now
         /\ op' = SnapCall(AllUrls[calls + 1], TestBucket, key_prefix, cleanup_local, now)
    /\ calls' = calls + 1
    /\ UNCHANGED <<ops, shot, pure, env, lam, bat, fs, s3, entry, cli, hist>>

\* ------------------------------------------------------------- history
Positions == 1..MaxUrls
NoHist == [started |-> [k \in Positions |-> 0], results |-> [k \in Positions |-> <<>>],
           sleeps |-> [k \in Positions |-> 0], outcome |-> [k \in Positions |-> "Pending"],
           interrupted_at |-> "", puts |-> <<>>]
HistStart(h, k) == [h EXCEPT !.started[k] = @ + 1]
HistResult(h, k, r) == [h EXCEPT !.results[k] = Append(@, r)]

\* ------------------------------------------------------------ cli.main
NoSummary == [printed |-> FALSE, success_count |-> 0, total_urls |-> 0]

\* sys.argv: a raw string per option given, Absent for an option not given;
\* --url-file names a file that may be missing and otherwise holds lines
NoFile == [given |-> FALSE, found |-> FALSE, lines |-> <<>>]
NoArgv == [url |-> Absent, url_file |-> NoFile, bucket |-> Absent, prefix |-> <<>>,
           output |-> <<>>, retries |-> Absent, parallel |-> Absent]

IdleCli == [pc |-> "idle", argv |-> NoArgv, urls |-> <<>>, bucket |-> <<>>, prefix |-> <<>>,
            output |-> <<>>, retries |-> 1, parallel |-> 1, i |-> 0, retry_count |-> 0,
            success |-> FALSE, success_count |-> 0, total_urls |-> 0, result_path |-> <<>>,
            summary |-> NoSummary, exit |-> -1, exc |-> NoExc]

\* line 71 calls load_config() without argument; config.py line 79 defines
\* load_config(config_file) with a required parameter
load_config(arguments) ==
    IF Len(arguments) = 1 THEN Return(<<>>)
    ELSE Raise(Exc("TypeError", "load_config() missing 1 required positional argument: 'config_file'"))

\* lines 56-65: blank lines and lines starting with "#" are dropped, every
\* other line is validated; any failure is re-raised as ArgumentTypeError
parse_urls_from_file(file) ==
    IF ~file.found THEN Raise(Exc("ArgumentTypeError", "URL file not found"))
    ELSE LET Kept(line) == line # <<>> /\ line[1] # "#"
             urls == SelectSeq(file.lines, Kept)
         IN IF \E j \in 1..Len(urls) : validate_url(urls[j]).raised
            THEN Raise(Exc("ArgumentTypeError", "Error reading URL file"))
            ELSE Return([j \in 1..Len(urls) |-> validate_url(urls[j]).value])

\* lines 98-148 and 162-163: parse_args applies each option's type callback
\* and the defaults; an ArgumentTypeError, the positional URL given together
\* with --url-file, and the missing URL all end in parser.error(), which
\* prints the usage and raises SystemExit(2)
ParseArgs(argv) ==
    LET url == IF argv.url = Absent THEN Return(<<>>) ELSE validate_url(argv.url)
        url_file == IF ~argv.url_file.given THEN Return(<<>>)
                    ELSE parse_urls_from_file(argv.url_file)
        bucket == IF argv.bucket = Absent THEN Return(<<>>)
                  ELSE validate_s3_bucket_name(argv.bucket)
        retries == IF argv.retries = Absent THEN Return(1)
                   ELSE validate_positive_int(argv.retries)
        parallel == IF argv.parallel = Absent THEN Return(1)
                    ELSE validate_positive_int(argv.parallel)
    IN IF url.raised \/ url_file.raised \/ bucket.raised \/ retries.raised \/ parallel.raised
       THEN Raise(Exc("SystemExit", "argument: invalid value"))
       ELSE IF argv.url # Absent /\ argv.url_file.given
       THEN Raise(Exc("SystemExit", "argument --url-file: not allowed with argument url"))
       ELSE IF url.value = <<>> /\ url_file.value = <<>>
       THEN Raise(Exc("SystemExit", "URL is required (or use --create-config)"))
       ELSE Return([urls |-> IF url.value # <<>> THEN << url.value >> ELSE url_file.value,
                    bucket |-> bucket.value, prefix |-> argv.prefix, output |-> argv.output,
                    retries |-> retries.value, parallel |-> parallel.value])

\* lines 181-194, after parse_args: the state at the head of the for loop
CliStart(urls, bucket, prefix, output, retries) ==
    [IdleCli EXCEPT !.pc = "for", !.urls = urls, !.bucket = bucket, !.prefix = prefix,
                    !.output = output, !.retries = retries, !.total_urls = Len(urls)]

\* line 203
WhileCond(retry_count, retries, success) == retry_count < retries /\ ~success

\* lines 238-243: the output path of a local-mode attempt
LocalOutputPath(output, total_urls, i, now) ==
    IF total_urls > 1 /\ output = <<>>
    THEN <<"screenshot_", Digit[i], "_">> \o Strftime(now) \o <<".png">>
    ELSE output

\* screenshot.py lines 32-36: the default name when no path is given
ScreenshotPath(output_path, now) ==
    IF output_path = <<>> THEN <<"screenshot_">> \o Strftime(now) \o <<".png">> ELSE output_path

\* lines 262-263
CliSucceed(c) == [c EXCEPT !.pc = "while", !.success = TRUE, !.success_count = @ + 1]

\* lines 265-273: the handler of an attempt's Exception
CliExcept(c) ==
    LET n == c.retry_count + 1
    IN [c EXCEPT !.retry_count = n, !.pc = IF n < c.retries THEN "sleep" ELSE "while"]

\* lines 276-281
ExitCode(success_count, total_urls) ==
    IF total_urls > 1 /\ success_count < total_urls THEN ExitFailure
    ELSE IF success_count > 0 THEN ExitSuccess ELSE ExitFailure

\* line 71, the first statement of main(), outside every try block: the
\* exception leaves main()
CliLoadConfig ==
    /\ cli.pc = "start"
    /\ LET config == load_config(<<>>)
       IN cli' = IF config.raised THEN [cli EXCEPT !.pc = "raised", !.exc = config.exc]
                 ELSE [cli EXCEPT !.pc = "parse"]
    /\ UNCHANGED <<ops, shot, pure, env, lam, bat, clock, fs, s3, entry, op, calls, hist>>

\* KeyboardInterrupt before line 71 has raised: main() is not yet in the try
\* block of line 181, so the interrupt leaves main() as well
CliInterruptAtStart ==
    /\ cli.pc = "start"
    /\ cli' = [cli EXCEPT !.pc = "raised", !.exc = Exc("KeyboardInterrupt", "")]
    /\ hist' = [hist EXCEPT !.interrupted_at = cli.pc]
    /\ UNCHANGED <<ops, shot, pure, env, lam, bat, clock, fs, s3, entry, op, calls>>

\* lines 148-194: SystemExit leaves main() through every handler, so main()
\* returns nothing and the process ends with the status of the SystemExit
CliParse ==
    /\ cli.pc = "parse"
    /\ LET r == ParseArgs(cli.argv)
       IN cli' = IF r.raised THEN [cli EXCEPT !.pc = "exited", !.exit = ExitUsage]
                 ELSE [CliStart(r.value.urls, r.value.bucket, r.value.prefix, r.value.output,
                                r.value.retries)
                         EXCEPT !.argv = cli.argv, !.parallel = r.value.parallel]
    /\ UNCHANGED <<ops, shot, pure, env, lam, bat, clock, fs, s3, entry, op, calls, hist>>

\* line 196: the for loop takes the next URL
CliForNext ==
    /\ cli.pc = "for"
    /\ cli.i < cli.total_urls
    /\ cli' = [cli EXCEPT !.pc = "while", !.i = @ + 1, !.retry_count = 0, !.success = FALSE]
    /\ UNCHANGED <<ops, shot, pure, env, lam, bat, clock, fs, s3, entry, op, calls, hist>>

\* line 203 false: the URL is finished, with a success or with its retries used up
CliWhileExit ==
    /\ cli.pc = "while"
    /\ ~WhileCond(cli.retry_count, cli.retries, cli.success)
    /\ cli' = [cli EXCEPT !.pc = "for"]
    /\ UNCHANGED <<ops, shot, pure, env, lam, bat, clock, fs, s3, entry, op, calls, hist>>

\* lines 205-223: an attempt in S3 mode calls take_snapshot_to_s3_sync
CliS3Attempt ==
    /\ cli.pc = "while"
    /\ WhileCond(cli.retry_count, cli.retries, cli.success)
    /\ cli.bucket # <<>>
    /\ \E now \in Later :
         /\ clock' = now
         /\ op' = SnapCall(cli.urls[cli.i], cli.bucket, cli.prefix, TRUE, now)
    /\ cli' = [cli EXCEPT !.pc = "s3_attempt"]
    /\ hist' = HistStart(hist, cli.i)
    /\ UNCHANGED <<ops, shot, pure, env, lam, bat, fs, s3, entry, calls>>

CliS3Ok ==
    /\ cli.pc = "s3_attempt"
    /\ op.pc = "returned"
    /\ cli' = CliSucceed(cli)
    /\ hist' = [HistResult(hist, cli.i, "ok") EXCEPT !.outcome[cli.i] = "Succeeded"]
    /\ UNCHANGED <<ops, shot, pure, env, lam, bat, clock, fs, s3, entry, op, calls>>

CliS3Fail ==
    /\ cli.pc = "s3_attempt"
    /\ op.pc = "raised"
    /\ cli' = CliExcept(cli)
    /\ hist' = [HistResult(hist, cli.i, "fail") EXCEPT
                  !.outcome[cli.i] = IF cli'.pc = "sleep" THEN @ ELSE "Failed"]
    /\ UNCHANGED <<ops, shot, pure, env, lam, bat, clock, fs, s3, entry, op, calls>>

\* lines 232-251: an attempt in local mode calls take_screenshot_sync
CliLocalAttempt ==
    /\ cli.pc = "while"
    /\ WhileCond(cli.retry_count, cli.retries, cli.success)
    /\ cli.bucket = <<>>
    /\ \E now \in Later :
         /\ clock' = now
         /\ cli' = [cli EXCEPT !.pc = "local_render",
                      !.result_path = ScreenshotPath(
                          LocalOutputPath(cli.output, cli.total_urls, cli.i, now), now)]
    /\ hist' = HistStart(hist, cli.i)
    /\ UNCHANGED <<ops, shot, pure, env, lam, bat, fs, s3, entry, op, calls>>

CliLocalRenderOk ==
    /\ cli.pc = "local_render"
    /\ fs' = WriteFile(fs, cli.result_path, Image(cli.urls[cli.i]))
    /\ cli' = [cli EXCEPT !.pc = "local_check"]
    /\ UNCHANGED <<ops, shot, pure, env, lam, bat, clock, s3, entry, op, calls, hist>>

CliLocalRenderFail ==
    /\ cli.pc = "local_render"
    /\ \E wrote \in BOOLEAN :
         fs' = IF wrote THEN WriteFile(fs, cli.result_path, Image(cli.urls[cli.i])) ELSE fs
    /\ cli' = CliExcept(cli)
    /\ hist' = [HistResult(hist, cli.i, "fail") EXCEPT
                  !.outcome[cli.i] = IF cli'.pc = "sleep" THEN @ ELSE "Failed"]
    /\ UNCHANGED <<ops, shot, pure, env, lam, bat, clock, s3, entry, op, calls>>

\* lines 255-258
CliLocalCheckOk ==
    /\ cli.pc = "local_check"
    /\ Exists(fs, cli.result_path)
    /\ cli' = CliSucceed(cli)
    /\ hist' = [HistResult(hist, cli.i, "ok") EXCEPT !.outcome[cli.i] = "Succeeded"]
    /\ UNCHANGED <<ops, shot, pure, env, lam, bat, clock, fs, s3, entry, op, calls>>

\* lines 259-260
CliLocalCheckFail ==
    /\ cli.pc = "local_check"
    /\ ~Exists(fs, cli.result_path)
    /\ cli' = CliExcept(cli)
    /\ hist' = [HistResult(hist, cli.i, "fail") EXCEPT
                  !.outcome[cli.i] = IF cli'.pc = "sleep" THEN @ ELSE "Failed"]
    /\ UNCHANGED <<ops, shot, pure, env, lam, bat, clock, fs, s3, entry, op, calls>>

\* line 271: time.sleep(2) returns
CliWake ==
    /\ cli.pc = "sleep"
    /\ cli' = [cli EXCEPT !.pc = "while"]
    /\ hist' = [hist EXCEPT !.sleeps[cli.i] = @ + 1]
    /\ UNCHANGED <<ops, shot, pure, env, lam, bat, clock, fs, s3, entry, op, calls>>

\* lines 275-281: the for loop is over
CliSummary ==
    /\ cli.pc = "for"
    /\ cli.i = cli.total_urls
    /\ cli' = [cli EXCEPT !.pc = "done",
                 !.summary = IF cli.total_urls > 1
                             THEN [printed |-> TRUE, success_count |-> cli.success_count,
                                   total_urls |-> cli.total_urls]
                             ELSE @,
                 !.exit = ExitCode(cli.success_count, cli.total_urls)]
    /\ UNCHANGED <<ops, shot, pure, env, lam, bat, clock, fs, s3, entry, op, calls, hist>>

\* KeyboardInterrupt anywhere in the try block of lines 181-281, raised in
\* main's thread at the point main or its callee has reached: it is no
\* Exception, so neither snapshot.py line 100 nor cli.py line 265 catches it.
\* The attempt in flight is abandoned where it stands; its staged file stays.
InterruptiblePc == {"for", "while", "s3_attempt", "local_render", "local_check", "sleep"}

\* lines 283-285
CliOnInterrupt(c) == [c EXCEPT !.pc = "done", !.exit = ExitInterrupted]

CliInterrupt ==
    /\ cli.pc \in InterruptiblePc
    /\ cli' = CliOnInterrupt(cli)
    /\ op' = IF op.pc \in {"render", "stat", "upload", "finish"}
             THEN [op EXCEPT !.pc = "interrupted"] ELSE op
    /\ hist' = [hist EXCEPT !.interrupted_at = cli.pc]
    /\ UNCHANGED <<ops, shot, pure, env, lam, bat, clock, fs, s3, entry, calls>>

\* main() as the code has it
Cli == CliLoadConfig \/ CliInterruptAtStart

\* lines 73-288: what main() does from line 73 on
CliBody ==
    \/ CliParse \/ CliForNext \/ CliWhileExit \/ CliS3Attempt \/ CliS3Ok \/ CliS3Fail
    \/ CliLocalAttempt \/ CliLocalRenderOk \/ CliLocalRenderFail
    \/ CliLocalCheckOk \/ CliLocalCheckFail \/ CliWake \/ CliSummary \/ CliInterrupt

\* ------------------------------------------------------- lambda_handler
Get(value, default) == IF value = Absent THEN default ELSE value   \* dict.get(k, default)
Or(a, b) == IF a # <<>> THEN a ELSE b                 \* Python's `a or b`

NoEvent == [url |-> <<>>, bucket |-> <<>>, prefix |-> Absent]
NoResponse == [statusCode |-> 0, success |-> FALSE, result |-> NoRecord, error |-> "", type |-> ""]
IdleLambda == [pc |-> "idle", event |-> NoEvent, response |-> NoResponse]

\* lines 83-95
OkResponse(result) ==
    [statusCode |-> StatusOk, success |-> TRUE, result |-> result, error |-> "", type |-> ""]

\* seeded fault: the handler reports the error under the success status
ErrorResponse_StatusOk(e) ==
    [statusCode |-> StatusOk, success |-> FALSE, result |-> NoRecord,
     error |-> e.msg, type |-> e.type]

\* lines 97-112: every Exception of the try block, the ValueErrors of lines 51
\* and 55 included, becomes this response
ErrorResponse(e) ==
    [statusCode |-> StatusError, success |-> FALSE, result |-> NoRecord,
     error |-> e.msg, type |-> e.type]

\* lines 49-55
LambdaValidate(event, environ) ==
    IF event.url = <<>> THEN Exc("ValueError", "URL is required")
    ELSE IF Or(event.bucket, environ.BUCKET_NAME) = <<>>
         THEN Exc("ValueError", "Bucket name is required (via event.bucket or BUCKET_NAME env var)")
         ELSE NoExc

\* lines 45-79: the frame of lambda_handler once it has either rejected the
\* event or called take_snapshot_to_s3_sync
LambdaFrame(event, environ) ==
    LET e == LambdaValidate(event, environ)
    IN IF e # NoExc
       THEN [pc |-> "done", event |-> event, response |-> ErrorResponse(e)]
       ELSE [pc |-> "snapshot", event |-> event, response |-> NoResponse]

\* lines 67-79: cleanup_local is always True here
LambdaSnapshot(event, environ, now, current) ==
    IF LambdaValidate(event, environ) # NoExc THEN current
    ELSE SnapCall(event.url, Or(event.bucket, environ.BUCKET_NAME),
                  Get(event.prefix, environ.KEY_PREFIX), TRUE, now)

LambdaInvoke ==
    /\ entry = "lambda"
    /\ lam.pc = "idle"
    /\ lam' = LambdaFrame(lam.event, env)
    /\ \E now \in Later :
         /\ clock' = now
         /\ op' = LambdaSnapshot(lam.event, env, now, op)
    /\ UNCHANGED <<ops, shot, pure, fs, s3, entry, calls, cli, hist, env, bat>>

LambdaReturn ==
    /\ lam.pc = "snapshot"
    /\ op.pc = "returned"
    /\ lam' = [lam EXCEPT !.pc = "done", !.response = OkResponse(op.result)]
    /\ UNCHANGED <<ops, shot, pure, clock, fs, s3, entry, op, calls, cli, hist, env, bat>>

LambdaCatch ==
    /\ lam.pc = "snapshot"
    /\ op.pc = "raised"
    /\ lam' = [lam EXCEPT !.pc = "done", !.response = ErrorResponse(op.exc)]
    /\ UNCHANGED <<ops, shot, pure, clock, fs, s3, entry, op, calls, cli, hist, env, bat>>

Lambda == LambdaInvoke \/ LambdaReturn \/ LambdaCatch

\* -------------------------------------------------------- batch_handler
NoBatchEvent == [urls |-> <<>>, bucket |-> <<>>, prefix |-> Absent]
NoBatchResponse == [statusCode |-> 0, success |-> FALSE, total_urls |-> 0, successful |-> 0,
                    failed |-> 0, results |-> <<>>, errors |-> <<>>, error |-> "", type |-> ""]
IdleBatch == [pc |-> "idle", event |-> NoBatchEvent, key_prefix |-> <<>>, i |-> 0,
              results |-> <<>>, errors |-> <<>>, response |-> NoBatchResponse]

\* lines 132-138
BatchValidate(event, environ) ==
    IF event.urls = <<>> THEN Exc("ValueError", "URLs list is required")
    ELSE IF Or(event.bucket, environ.BUCKET_NAME) = <<>>
         THEN Exc("ValueError", "Bucket name is required")
         ELSE NoExc

\* lines 199-214
BatchErrorResponse(e) ==
    [NoBatchResponse EXCEPT !.statusCode = StatusError, !.error = e.msg, !.type = e.type]

\* f"{i:03d}"
ThreeDigits(n) == << Digit[(n \div 100) % 10], Digit[(n \div 10) % 10], Digit[n % 10] >>

\* seeded fault: the prefix of an individual event does not hold the position
BatchPrefix_NoPosition(key_prefix, i) == key_prefix \o <<"batch-">>

\* line 153
BatchPrefix(key_prefix, i) == key_prefix \o <<"batch-">> \o ThreeDigits(i) \o <<"-">>

\* lines 150-154: {**event, "url": url, "prefix": ...}
IndividualEvent(event, key_prefix, i) ==
    [url |-> event.urls[i], bucket |-> event.bucket, prefix |-> BatchPrefix(key_prefix, i)]

\* lines 159-167: one response goes to exactly one of the two lists
BatchCollect(b, url, response) ==
    IF response.statusCode = StatusOk
    THEN [b EXCEPT !.pc = "loop", !.results = Append(@, response.result)]
    ELSE [b EXCEPT !.pc = "loop", !.errors = Append(@, [url |-> url, error |-> response.error])]

\* seeded fault: 200 only for a batch without any failure
BatchSummary_AllOrNothing(b) ==
    LET success_count == Len(b.results)
        ok == success_count > 0 /\ b.errors = <<>>
    IN [NoBatchResponse EXCEPT
          !.statusCode = IF ok THEN StatusOk ELSE StatusError, !.success = ok,
          !.total_urls = Len(b.event.urls), !.successful = success_count,
          !.failed = Len(b.errors), !.results = b.results, !.errors = b.errors]

\* lines 176-197
BatchSummary(b) ==
    LET success_count == Len(b.results)
    IN [NoBatchResponse EXCEPT
          !.statusCode = IF success_count > 0 THEN StatusOk ELSE StatusError,
          !.success = success_count > 0,
          !.total_urls = Len(b.event.urls), !.successful = success_count,
          !.failed = Len(b.errors), !.results = b.results, !.errors = b.errors]

\* lines 129-143
BatchInvoke ==
    /\ entry = "batch"
    /\ bat.pc = "idle"
    /\ LET e == BatchValidate(bat.event, env)
       IN bat' = IF e # NoExc
                 THEN [bat EXCEPT !.pc = "done", !.response = BatchErrorResponse(e)]
                 ELSE [bat EXCEPT !.pc = "loop",
                                  !.key_prefix = Get(bat.event.prefix, env.KEY_PREFIX)]
    /\ UNCHANGED <<ops, shot, pure, clock, fs, s3, entry, op, calls, cli, hist, env, lam>>

\* lines 145-157: the next URL is handed to lambda_handler
BatchNext ==
    /\ bat.pc = "loop"
    /\ bat.i < Len(bat.event.urls)
    /\ LET i == bat.i + 1
           individual_event == IndividualEvent(bat.event, bat.key_prefix, i)
       IN /\ bat' = [bat EXCEPT !.pc = "call", !.i = i]
          /\ lam' = LambdaFrame(individual_event, env)
          /\ \E now \in Later :
               /\ clock' = now
               /\ op' = LambdaSnapshot(individual_event, env, now, op)
          /\ hist' = HistStart(hist, i)
    /\ UNCHANGED <<ops, shot, pure, fs, s3, entry, calls, cli, env>>

\* lines 159-167; lambda_handler never raises, so lines 169-174 are not reached
BatchTake ==
    /\ bat.pc = "call"
    /\ lam.pc = "done"
    /\ bat' = BatchCollect(bat, bat.event.urls[bat.i], lam.response)
    /\ hist' = LET ok == lam.response.statusCode = StatusOk
               IN [HistResult(hist, bat.i, IF ok THEN "ok" ELSE "fail") EXCEPT
                     !.outcome[bat.i] = IF ok THEN "Succeeded" ELSE "Failed"]
    /\ UNCHANGED <<ops, shot, pure, clock, fs, s3, entry, op, calls, cli, env, lam>>

BatchFinish ==
    /\ bat.pc = "loop"
    /\ bat.i = Len(bat.event.urls)
    /\ bat' = [bat EXCEPT !.pc = "done", !.response = BatchSummary(bat)]
    /\ UNCHANGED <<ops, shot, pure, clock, fs, s3, entry, op, calls, cli, hist, env, lam>>

Batch == BatchInvoke \/ BatchNext \/ BatchTake \/ BatchFinish

\* ------------------------------------------------------- take_screenshot
\* browser and page are "none" until created, then "open", then "closed";
\* closes counts the calls of browser.close(); pending is the exception or
\* the return value on its way through the finally clause
IdleShot == [pc |-> "idle", url |-> <<>>, output_path |-> <<>>, browser |-> "none",
             page |-> "none", closes |-> 0, navigated |-> FALSE, pending |-> NoExc,
             result |-> <<>>, exc |-> NoExc]

\* lines 32-37; the async with of line 39 has started the driver
ShotCall ==
    /\ entry = "shot"
    /\ shot.pc \in {"idle", "returned", "raised"}
    /\ calls < MaxCalls
    /\ calls' = calls + 1
    /\ \E url \in {AllUrls[1], AllUrls[2]}, output_path \in {<<>>, <<"shot.png">>}, now \in Later :
         /\ clock' = now
         /\ shot' = [IdleShot EXCEPT !.pc = "launch", !.url = url,
                                     !.output_path = ScreenshotPath(output_path, now)]
    /\ UNCHANGED <<ops, pure, fs, s3, entry, op, cli, hist, env, lam, bat>>

\* line 58, outside the try block: a failed launch leaves the function, no
\* browser exists
ShotLaunch ==
    /\ shot.pc = "launch"
    /\ \/ shot' = [shot EXCEPT !.pc = "new_page", !.browser = "open"]
       \/ shot' = [shot EXCEPT !.pc = "raised", !.exc = Exc("Error", "Executable doesn't exist")]
    /\ UNCHANGED <<ops, pure, clock, fs, s3, entry, op, calls, cli, hist, env, lam, bat>>

\* seeded fault: no finally clause, an exception leaves the function at once
ShotExcept_NoFinally(sh, e) == [sh EXCEPT !.pc = "raised", !.exc = e]

\* lines 60-72: an exception raised in the try block goes through the finally clause
ShotExcept(sh, e) == [sh EXCEPT !.pc = "finally", !.pending = e]

\* the awaits of the try block, where the task can also be cancelled
ShotFailures == {Exc("TimeoutError", "Timeout 30000ms exceeded"), Exc("CancelledError", "")}

\* lines 61-63
ShotNewPage ==
    /\ shot.pc = "new_page"
    /\ \/ shot' = [shot EXCEPT !.pc = "goto", !.page = "open"]
       \/ \E e \in ShotFailures : shot' = ShotExcept(shot, e)
    /\ UNCHANGED <<ops, pure, clock, fs, s3, entry, op, calls, cli, hist, env, lam, bat>>

\* line 65
ShotGoto ==
    /\ shot.pc = "goto"
    /\ \/ shot' = [shot EXCEPT !.pc = "screenshot", !.navigated = TRUE]
       \/ \E e \in ShotFailures : shot' = ShotExcept(shot, e)
    /\ UNCHANGED <<ops, pure, clock, fs, s3, entry, op, calls, cli, hist, env, lam, bat>>

\* lines 67-69: the image is written and the path is the return value
ShotScreenshot ==
    /\ shot.pc = "screenshot"
    /\ \/ /\ fs' = WriteFile(fs, shot.output_path, Image(shot.url))
          /\ shot' = [shot EXCEPT !.pc = "finally", !.result = shot.output_path]
       \/ /\ \E e \in ShotFailures : shot' = ShotExcept(shot, e)
          /\ \E wrote \in BOOLEAN :
               fs' = IF wrote THEN WriteFile(fs, shot.output_path, Image(shot.url)) ELSE fs
    /\ UNCHANGED <<ops, pure, clock, s3, entry, op, calls, cli, hist, env, lam, bat>>

\* lines 71-72: browser.close() closes the browser and the pages it opened;
\* then the pending exception is re-raised or the value returned
ShotClose ==
    /\ shot.pc = "finally"
    /\ shot' = [shot EXCEPT !.pc = IF shot.pending = NoExc THEN "returned" ELSE "raised",
                            !.exc = shot.pending, !.pending = NoExc,
                            !.browser = "closed", !.closes = @ + 1,
                            !.page = IF @ = "open" THEN "closed" ELSE @]
    /\ UNCHANGED <<ops, pure, clock, fs, s3, entry, op, calls, cli, hist, env, lam, bat>>

\* ------------------------------ take_snapshot_to_s3, calls in flight together
\* Coroutines of one event loop (asyncio.gather over take_snapshot_to_s3): a
\* coroutine gives way only at its await of take_screenshot (snapshot.py line
\* 62); from the return of that await to its own return or raise it runs
\* alone. The browser writes the image while the coroutine is suspended.
MaxOps == 2
NoOps == [p \in 1..MaxOps |-> IdleOp]

\* no other coroutine is between its resumption and its end
LoopFree(p) == \A q \in DOMAIN ops \ {p} : ops[q].pc \notin {"stat", "upload", "finish"}

\* lines 53-62, up to the await
ConcCall(p) ==
    /\ entry = "gather"
    /\ ops[p].pc = "idle"
    /\ LoopFree(p)
    /\ \E key_prefix \in Prefixes, cleanup_local \in BOOLEAN, now \in Later :
         /\ clock' = now
         /\ ops' = [ops EXCEPT ![p] = SnapCall(AllUrls[p], TestBucket, key_prefix,
                                               cleanup_local, now)]
    /\ UNCHANGED <<shot, pure, env, lam, bat, fs, s3, entry, op, calls, cli, hist>>

\* the browser writes the image to temp_file; the coroutine is still suspended
ConcWrite(p) ==
    /\ ops[p].pc = "render"
    /\ fs' = WriteFile(fs, ops[p].temp_file, Image(ops[p].url))
    /\ ops' = [ops EXCEPT ![p] = [Stage(@, <<"render">>) EXCEPT !.pc = "rendered",
                                                               !.local_path = ops[p].temp_file]]
    /\ UNCHANGED <<shot, pure, env, lam, bat, clock, s3, entry, op, calls, cli, hist>>

\* the await of line 62 returns the path, or raises into lines 100-104
ConcResume(p) ==
    /\ LoopFree(p)
    /\ \/ /\ ops[p].pc = "rendered"
          /\ ops' = [ops EXCEPT ![p].pc = "stat"]
          /\ fs' = fs
       \/ /\ ops[p].pc = "render"
          /\ ops' = [ops EXCEPT ![p] = SnapRaise(Stage(@, <<"render failed">>),
                                          Exc("TimeoutError", "Timeout 30000ms exceeded"))]
          /\ fs' = ErrorCleanup(fs, ops[p].temp_file)
    /\ UNCHANGED <<shot, pure, env, lam, bat, clock, s3, entry, op, calls, cli, hist>>

\* line 71
ConcStat(p) ==
    /\ ops[p].pc = "stat"
    /\ IF Exists(fs, ops[p].local_path)
       THEN /\ ops' = [ops EXCEPT ![p] = [Stage(@, <<"size">>) EXCEPT !.pc = "upload",
                                             !.file_size = fs[ops[p].local_path].st_size]]
            /\ fs' = fs
       ELSE /\ ops' = [ops EXCEPT ![p] = SnapRaise(Stage(@, <<"size failed">>),
                                   Exc("FileNotFoundError", "No such file or directory"))]
            /\ fs' = ErrorCleanup(fs, ops[p].temp_file)
    /\ UNCHANGED <<shot, pure, env, lam, bat, clock, s3, entry, op, calls, cli, hist>>

\* lines 74-81: the file now at local_path is stored, or the transfer fails
ConcUpload(p) ==
    /\ ops[p].pc = "upload"
    /\ Exists(fs, ops[p].local_path)
    /\ \/ \E now \in Later :
            LET s3_key == UploadKey(ops[p].local_path, ops[p].key_prefix, UploaderTimestamp(now))
            IN /\ clock' = now
               /\ s3' = WriteFile(s3, <<ops[p].bucket_name, s3_key>>, fs[ops[p].local_path])
               /\ ops' = [ops EXCEPT ![p] = [Stage(@, <<"upload called", "upload returned">>)
                              EXCEPT !.pc = "finish", !.upload_key = s3_key,
                                     !.s3_url = S3Url(ops[p].bucket_name, s3_key)]]
               /\ fs' = fs
       \/ /\ \E type \in UploadErrors :
               ops' = [ops EXCEPT ![p] = SnapRaise(Stage(@, <<"upload called", "upload failed">>),
                                                  Exc(type, "upload failed"))]
          /\ fs' = ErrorCleanup(fs, ops[p].temp_file)
          /\ UNCHANGED <<clock, s3>>
    /\ UNCHANGED <<shot, pure, env, lam, bat, entry, op, calls, cli, hist>>

\* lines 83-98
ConcFinish(p) ==
    /\ ops[p].pc = "finish"
    /\ fs' = SuccessCleanup(fs, ops[p].local_path, ops[p].cleanup_local)
    /\ ops' = [ops EXCEPT ![p] = [Stage(@, IF @.cleanup_local THEN <<"cleanup">> ELSE <<>>)
                                     EXCEPT !.pc = "returned", !.result = MakeRecord(ops[p])]]
    /\ UNCHANGED <<shot, pure, env, lam, bat, clock, s3, entry, op, calls, cli, hist>>

\* ---------------------------------------------------------- configuration
\* A dict is a function on the keys it holds. A candidate file is missing,
\* exists without being readable as JSON, or holds a dict.
\* dict.update
Update(d, e) == [k \in DOMAIN d \cup DOMAIN e |-> IF k \in DOMAIN e THEN e[k] ELSE d[k]]

\* Config._load_from_files, lines 25-33, over the candidates of lines 19-23
RECURSIVE _load_from_files(_, _)
_load_from_files(data, config_files) ==
    IF config_files = <<>> THEN data
    ELSE LET config_file == Head(config_files)
         IN IF config_file.exists
            THEN IF config_file.valid
                 THEN Update(data, config_file.data)                      \* break
                 ELSE _load_from_files(data, Tail(config_files))          \* continue
            ELSE _load_from_files(data, Tail(config_files))

\* Config._load_from_env, lines 37-61
_load_from_env(data, environ) ==
    LET env_mapping == [PS3S_BUCKET |-> "bucket", PS3S_RETRIES |-> "retries",
                        PS3S_VERBOSE |-> "verbose"]
        lower(value) == IF value = <<"YES">> THEN <<"yes">> ELSE value
        stored == { env_var \in DOMAIN env_mapping \cap DOMAIN environ :
                      env_mapping[env_var] = "retries" => IsInt(environ[env_var]) }
        var(config_key) == CHOOSE env_var \in stored : env_mapping[env_var] = config_key
        convert(config_key, value) ==
            IF config_key = "retries" THEN Int_(value)
            ELSE IF config_key = "verbose"
                 THEN lower(value) \in { <<"true">>, <<"1">>, <<"yes">>, <<"on">> }
                 ELSE value
    IN [config_key \in DOMAIN data \cup {env_mapping[env_var] : env_var \in stored} |->
          IF \E env_var \in stored : env_mapping[env_var] = config_key
          THEN convert(config_key, environ[var(config_key)])
          ELSE data[config_key]]

\* lines 90-92
merge_config(config, args_dict) ==
    LET result == config                     \* config.copy()
    IN [result |-> Update(result, args_dict), config |-> config]

\* cli.py lines 71 and 104-145: what main() takes as the value of each
\* option; neither the candidate files nor the environment are read
main_config(flags, config_files, environ) ==
    LET config == load_config(<<>>)
        defaults == [bucket |-> <<>>, retries |-> 1, verbose |-> FALSE]
    IN IF config.raised THEN config
       ELSE Return([k \in DOMAIN defaults |->
                      IF k \in DOMAIN flags THEN flags[k]
                      ELSE IF k \in DOMAIN config.value THEN config.value[k]
                      ELSE defaults[k]])

\* -------------------------------------------------- pure function calls
IdlePure == [fn |-> "", pc |-> "idle", arg |-> <<>>, out |-> Return(<<>>)]
Call(fn, arg) == [fn |-> fn, pc |-> "call", arg |-> arg, out |-> Return(<<>>)]

MaxUrlLen == 3         \* tokens in a URL argument
MaxTail == 2           \* characters varied at the end of a bucket name
MaxIntLen == 2         \* characters in a numeric option
MaxPrefixLen == 3      \* tokens in a key prefix

\* all sequences over S of length at most n
Seqs(S, n) == UNION { [1..k -> S] : k \in 0..n }

UrlInputs ==
    Seqs({"https://", "http://", "ftp://", "example.com", "/", "?", ":", "@"}, MaxUrlLen)

\* bucket names: at most one varied character, a run of "b" that is empty or
\* brings the length to either side of MaxBucketLen, and a varied tail
BucketInputs ==
    LET chars == {"a", "9", "-", ".", "A", "\n"}
        lens == {0} \cup ((MaxBucketLen - MaxTail - 1)..MaxBucketLen)
    IN { h \o [j \in 1..m |-> "b"] \o t :
            h \in Seqs(chars, 1), m \in lens, t \in Seqs(chars, MaxTail) }

IntInputs == Seqs({"0", "1", "3", "-", "+", "x"}, MaxIntLen)

KeyInputs ==
    [file_path : { TempDir \o <<"capture", ext>> : ext \in {".png", ".jpg"} },
     key_prefix : Seqs({"qa", "v1", "/"}, MaxPrefixLen), timestamp : 0..MaxClock]

PureValidateUrl ==
    /\ pure.pc = "call" /\ pure.fn = "validate_url"
    /\ pure' = [pure EXCEPT !.pc = "done", !.out = validate_url(pure.arg)]
    /\ UNCHANGED <<ops, shot, clock, fs, s3, entry, op, calls, cli, hist, env, lam, bat>>

PureValidateBucket ==
    /\ pure.pc = "call" /\ pure.fn = "validate_s3_bucket_name"
    /\ pure' = [pure EXCEPT !.pc = "done", !.out = validate_s3_bucket_name(pure.arg)]
    /\ UNCHANGED <<ops, shot, clock, fs, s3, entry, op, calls, cli, hist, env, lam, bat>>

PurePositiveInt ==
    /\ pure.pc = "call" /\ pure.fn = "validate_positive_int"
    /\ pure' = [pure EXCEPT !.pc = "done", !.out = validate_positive_int(pure.arg)]
    /\ UNCHANGED <<ops, shot, clock, fs, s3, entry, op, calls, cli, hist, env, lam, bat>>

\* the key the uploader stores under and the key the record reports
\* the dicts of one source: any of the keys, each with the value this source gives it
Dicts(bucket, retries) ==
    LET full == [bucket |-> <<bucket>>, retries |-> retries, verbose |-> TRUE]
    IN { [k \in keys |-> full[k]] : keys \in SUBSET DOMAIN full }

\* the three candidates of config.py lines 19-23, each with values of its own
ConfigFiles ==
    LET Candidate(i) ==
            { [exists |-> FALSE, valid |-> FALSE, data |-> EmptyMap],
              [exists |-> TRUE, valid |-> FALSE, data |-> EmptyMap] }
            \cup { [exists |-> TRUE, valid |-> TRUE, data |-> d] :
                       d \in { [bucket |-> <<"file-bucket", Digit[i]>>],
                               [bucket |-> <<"file-bucket", Digit[i]>>, retries |-> i + 1,
                                verbose |-> TRUE] } }
    IN { <<a, b, c>> : a \in Candidate(1), b \in Candidate(2), c \in Candidate(3) }

\* os.environ: each variable unset or set, PS3S_RETRIES also to a non-number
OsEnvirons ==
    LET values == [PS3S_BUCKET |-> { <<"env-bucket">> },
                   PS3S_RETRIES |-> { <<"5">>, <<"x">> },
                   PS3S_VERBOSE |-> { <<"YES">>, <<"no">> }]
    IN UNION { { f \in [vars_set -> UNION {values[v] : v \in vars_set}] :
                   \A v \in vars_set : f[v] \in values[v] } :
               vars_set \in SUBSET DOMAIN values }

\* Config(), lines 12-15
PureConfig ==
    /\ pure.pc = "call" /\ pure.fn = "Config"
    /\ LET files == _load_from_files(EmptyMap, pure.arg.config_files)
       IN pure' = [pure EXCEPT !.pc = "done", !.out =
                     Return([files |-> files, data |-> _load_from_env(files, pure.arg.environ)])]
    /\ UNCHANGED <<ops, shot, clock, fs, s3, entry, op, calls, cli, hist, env, lam, bat>>

PureMerge ==
    /\ pure.pc = "call" /\ pure.fn = "merge_config"
    /\ pure' = [pure EXCEPT !.pc = "done", !.out =
                  Return(merge_config(pure.arg.config, pure.arg.args_dict))]
    /\ UNCHANGED <<ops, shot, clock, fs, s3, entry, op, calls, cli, hist, env, lam, bat>>

\* main() up to parse_args
PureMain ==
    /\ pure.pc = "call" /\ pure.fn = "main"
    /\ pure' = [pure EXCEPT !.pc = "done", !.out =
                  main_config(pure.arg.flags, pure.arg.config_files, pure.arg.environ)]
    /\ UNCHANGED <<ops, shot, clock, fs, s3, entry, op, calls, cli, hist, env, lam, bat>>

PureKey ==
    /\ pure.pc = "call" /\ pure.fn = "key"
    /\ pure' = [pure EXCEPT !.pc = "done", !.out =
            [upload_key |-> UploadKey(pure.arg.file_path, pure.arg.key_prefix, pure.arg.timestamp),
             record_key |-> RecordKey(pure.arg.key_prefix, pure.arg.timestamp)]]
    /\ UNCHANGED <<ops, shot, clock, fs, s3, entry, op, calls, cli, hist, env, lam, bat>>

\* ------------------------------------------------------------------ runs
InitEnv ==
    /\ clock = 0
    /\ fs = EmptyMap
    /\ s3 = EmptyMap
    /\ op = IdleOp
    /\ calls = 0
    /\ hist = NoHist

NoEnviron == [BUCKET_NAME |-> <<>>, KEY_PREFIX |-> <<>>]

InitApi ==
    /\ entry = "api"
    /\ cli = IdleCli /\ lam = IdleLambda /\ bat = IdleBatch /\ env = NoEnviron

\* a file of URLs: a comment line, the URLs, a blank line
UrlFile(urls) ==
    [given |-> TRUE, found |-> TRUE, lines |-> << <<"#", "urls">> >> \o urls \o << <<>> >>]

\* command lines of the error-handling cases: no argument at all, a URL
\* without host, the URL of tests/test_cli.py line 97, a malformed bucket
\* name, non-positive and non-numeric options, a missing URL file, a URL
\* file with a bad line, a URL file without URLs, a URL and a URL file
EdgeArgvs ==
    { NoArgv,
      [NoArgv EXCEPT !.url = <<"https://">>],
      [NoArgv EXCEPT !.url = <<"not-a-url">>],
      [NoArgv EXCEPT !.url = <<"example.com">>, !.bucket = <<"B", "a", "d", "_">>],
      [NoArgv EXCEPT !.url = <<"example.com">>, !.retries = <<"0">>],
      [NoArgv EXCEPT !.url = <<"example.com">>, !.retries = <<"-", "1">>],
      [NoArgv EXCEPT !.url = <<"example.com">>, !.parallel = <<"x">>],
      [NoArgv EXCEPT !.url_file = [given |-> TRUE, found |-> FALSE, lines |-> <<>>]],
      [NoArgv EXCEPT !.url_file = UrlFile(<< AllUrls[1], <<"https://">> >>)],
      [NoArgv EXCEPT !.url_file = UrlFile(<<>>)],
      [NoArgv EXCEPT !.url = <<"example.com">>, !.url_file = UrlFile(<< AllUrls[2] >>)] }

\* command lines that parse: a single URL is given as the positional
\* argument, without its scheme, several URLs in a file; --output is ignored
\* when --bucket is given, so the second option varied is --prefix with
\* --bucket and --output without; --parallel is an option for batches
RunArgvs ==
    { [url |-> IF n = 1 THEN <<"example.com">> ELSE Absent,
       url_file |-> IF n = 1 THEN NoFile ELSE UrlFile(SubSeq(AllUrls, 1, n)),
       bucket |-> bucket,
       prefix |-> IF bucket # Absent /\ second THEN <<"qa", "/">> ELSE <<>>,
       output |-> IF bucket = Absent /\ second THEN <<"shot.png">> ELSE <<>>,
       retries |-> IF retries = 1 THEN Absent ELSE << Digit[retries] >>,
       parallel |-> IF n > 1 /\ parallel THEN <<"4">> ELSE Absent]
      : n \in 1..MaxUrls, bucket \in {Absent, TestBucket}, retries \in 1..MaxRetries,
        second \in BOOLEAN, parallel \in BOOLEAN }

\* main() is entered with sys.argv
InitCli ==
    /\ entry = "cli"
    /\ lam = IdleLambda /\ bat = IdleBatch /\ env = NoEnviron
    /\ \E argv \in EdgeArgvs \cup RunArgvs : cli = [IdleCli EXCEPT !.pc = "start", !.argv = argv]

\* the environments of a serverless run; KEY_PREFIX is read only when the
\* event holds no prefix
Environs(prefix) ==
    [BUCKET_NAME : {<<>>, TestBucket},
     KEY_PREFIX : IF prefix = Absent THEN {<<>>, <<"env", "/">>} ELSE {<<>>}]

InitLambda ==
    /\ entry = "lambda"
    /\ cli = IdleCli /\ bat = IdleBatch
    /\ \E url \in {<<>>, AllUrls[1]}, bucket \in {<<>>, TestBucket},
          prefix \in Prefixes \cup {Absent} :
         /\ lam = [IdleLambda EXCEPT !.event = [url |-> url, bucket |-> bucket, prefix |-> prefix]]
         /\ env \in Environs(prefix)

\* the URL lists of a batch request: up to MaxUrls URLs, one of them possibly empty
UrlLists ==
    { [k \in 1..n |-> IF k = blank THEN <<>> ELSE AllUrls[k]] : n \in 0..MaxUrls, blank \in 0..MaxUrls }

InitBatch ==
    /\ entry = "batch"
    /\ cli = IdleCli /\ lam = IdleLambda
    /\ \E urls \in UrlLists, bucket \in {<<>>, TestBucket}, prefix \in {Absent, <<"qa", "/">>} :
         /\ bat = [IdleBatch EXCEPT !.event = [urls |-> urls, bucket |-> bucket, prefix |-> prefix]]
         /\ env \in Environs(prefix)

Init == InitEnv /\ pure = IdlePure /\ shot = IdleShot /\ ops = NoOps /\ (InitApi \/ InitCli \/ InitLambda \/ InitBatch)

Next == ExternalUnlink \/ Snapshot \/ ApiCall \/ Cli \/ Lambda \/ Batch

Spec == Init /\ [][Next]_vars

\* Lines 73-288 of main() on their own: the runs main() would make from line
\* 73 on with an empty configuration. The code as it stands never gets there
\* (CliLoadConfig).
InitBody ==
    /\ InitEnv /\ pure = IdlePure /\ shot = IdleShot /\ ops = NoOps /\ entry = "cli"
    /\ lam = IdleLambda /\ bat = IdleBatch /\ env = NoEnviron
    /\ \E argv \in EdgeArgvs \cup RunArgvs : cli = [IdleCli EXCEPT !.pc = "parse", !.argv = argv]

NextBody == ExternalUnlink \/ Snapshot \/ CliBody

SpecBody == InitBody /\ [][NextBody]_vars

\* the functions of the CLI's argument validation and of the key
\* construction, each applied once to an input of a bounded set
InitPure ==
    /\ InitEnv /\ entry = "pure" /\ shot = IdleShot /\ ops = NoOps
    /\ cli = IdleCli /\ lam = IdleLambda /\ bat = IdleBatch /\ env = NoEnviron
    /\ \/ \E url \in UrlInputs : pure = Call("validate_url", url)
       \/ \E bucket \in BucketInputs : pure = Call("validate_s3_bucket_name", bucket)
       \/ \E value \in IntInputs : pure = Call("validate_positive_int", value)
       \/ \E arg \in KeyInputs : pure = Call("key", arg)
       \/ \E config_files \in ConfigFiles, environ \in OsEnvirons :
            pure = Call("Config", [config_files |-> config_files, environ |-> environ])
       \/ \E config \in Dicts("file-bucket", 2), args_dict \in Dicts("cli-bucket", 6) :
            pure = Call("merge_config", [config |-> config, args_dict |-> args_dict])
       \/ \E flags \in Dicts("cli-bucket", 6), config_files \in ConfigFiles, environ \in OsEnvirons :
            pure = Call("main", [flags |-> flags, config_files |-> config_files,
                                 environ |-> environ])

NextPure ==
    \/ PureValidateUrl \/ PureValidateBucket \/ PurePositiveInt \/ PureKey
    \/ PureConfig \/ PureMerge \/ PureMain

SpecPure == InitPure /\ [][NextPure]_vars

\* take_screenshot called by a library user, up to MaxCalls times
InitShot ==
    /\ InitEnv /\ entry = "shot" /\ pure = IdlePure /\ shot = IdleShot /\ ops = NoOps
    /\ cli = IdleCli /\ lam = IdleLambda /\ bat = IdleBatch /\ env = NoEnviron

NextShot == ShotCall \/ ShotLaunch \/ ShotNewPage \/ ShotGoto \/ ShotScreenshot \/ ShotClose

SpecShot == InitShot /\ [][NextShot]_vars

\* asyncio.gather over MaxOps calls of take_snapshot_to_s3 with the default temp_dir
InitConc ==
    /\ InitEnv /\ entry = "gather" /\ pure = IdlePure /\ shot = IdleShot /\ ops = NoOps
    /\ cli = IdleCli /\ lam = IdleLambda /\ bat = IdleBatch /\ env = NoEnviron

NextConc ==
    \E p \in DOMAIN ops :
        ConcCall(p) \/ ConcWrite(p) \/ ConcResume(p) \/ ConcStat(p) \/ ConcUpload(p) \/ ConcFinish(p)

SpecConc == InitConc /\ [][NextConc]_vars

\* ================================================================ claims
Outcome(k) == hist.outcome[k]
NumberOf(out, n) == Cardinality({k \in 1..n : Outcome(k) = out})
\* the URLs the command line names, as validation leaves them
GivenUrls == IF entry # "cli" \/ ParseArgs(cli.argv).raised THEN <<>>
             ELSE ParseArgs(cli.argv).value.urls
\* main() is over (it returned, or an exception left it) without interrupt,
\* on a command line that names URLs
CliFinished ==
    /\ entry = "cli" /\ cli.pc \in {"done", "raised", "exited"}
    /\ hist.interrupted_at = "" /\ GivenUrls # <<>>
BatchFinished == entry = "batch" /\ bat.pc = "done" /\ BatchValidate(bat.event, env) = NoExc
InFlight == {"render", "stat", "upload", "finish"}

RECURSIVE UrlsWhere(_, _, _)
UrlsWhere(urls, k, out) ==
    IF k > Len(urls) THEN <<>>
    ELSE (IF Outcome(k) = out THEN << urls[k] >> ELSE <<>>) \o UrlsWhere(urls, k + 1, out)

\* C1: with cleanup_local true, once take_snapshot_to_s3 has returned a record
\* or raised from the render, the size read or the upload, the staged file
\* temp_dir/screenshot_{T}.png does not exist.
C1_StagedFileRemoved ==
    (op.pc \in {"returned", "raised"} /\ op.cleanup_local) => ~Exists(fs, op.temp_file)

\* the call raised from the upload step, which had found the staged file on disk
C1_Witness ==
    op.pc = "raised" /\ op.cleanup_local /\ op.exc.type \in UploadErrors

C3_RecordKeyIsStoredKey ==
    op.pc = "returned" =>
        /\ op.temp_file = TempFile(op.timestamp)
        /\ op.result.s3_url = S3Url(op.bucket_name, op.result.s3_key)
        /\ op.result.s3_key = op.upload_key

\* C4: per URL of the CLI, attempts are made until the first success or until
\* --retries attempts have failed; the URL ends Succeeded iff one of them
\* succeeded, Failed otherwise, and no attempt follows either outcome.
C4_RetryUntilSuccessOrBound ==
    /\ entry = "cli" =>
         \A k \in 1..cli.total_urls :
            LET r == hist.results[k]
                n == Len(r)
            IN /\ hist.started[k] <= cli.retries
               /\ n <= hist.started[k] /\ hist.started[k] <= n + 1
               /\ \A j \in 1..(n - 1) : r[j] = "fail"
               /\ Outcome(k) = "Succeeded" <=> (n >= 1 /\ r[n] = "ok")
               /\ Outcome(k) = "Failed" <=> (n = cli.retries /\ r[n] = "fail")
               /\ Outcome(k) # "Pending" => hist.started[k] = n
               /\ (k < cli.i \/ (k = cli.i /\ cli.pc = "for") \/ CliFinished)
                    => Outcome(k) # "Pending"
    /\ CliFinished => \A k \in 1..Len(GivenUrls) : Outcome(k) \in {"Succeeded", "Failed"}

\* fail, fail, succeed with --retries 3: success after exactly 3 calls
C4_Witness ==
    /\ entry = "cli" /\ cli.retries = 3
    /\ hist.results[1] = <<"fail", "fail", "ok">>
    /\ hist.started[1] = 3 /\ Outcome(1) = "Succeeded"

\* C5: absent interruption, main returns 0 only if at least one URL succeeded
\* and, with one URL, that URL succeeded or, in a batch, all URLs succeeded;
\* otherwise it returns 1.
C5_ExitCodePolicy ==
    CliFinished =>
        LET n == Len(GivenUrls)
        IN /\ cli.pc = "done" /\ cli.exit \in {ExitSuccess, ExitFailure}
           /\ cli.exit = ExitSuccess <=>
                /\ \E k \in 1..n : Outcome(k) = "Succeeded"
                /\ IF n = 1 THEN Outcome(1) = "Succeeded"
                   ELSE \A k \in 1..n : Outcome(k) = "Succeeded"

\* a batch of two with one success and one failure exits 1
C5_Witness ==
    /\ CliFinished /\ Len(cli.urls) = 2 /\ cli.exit = ExitFailure
    /\ Outcome(1) = "Succeeded" /\ Outcome(2) = "Failed"

\* C6: a URL's failure, its retries used up included, never stops the batch:
\* every URL of the list is attempted and a failure is recorded against the
\* URL that failed and no other, in the CLI loop and in batch_handler.
C6_FailureIsolation ==
    /\ CliFinished =>
         \A k \in 1..Len(GivenUrls) :
            /\ hist.started[k] >= 1
            /\ Outcome(k) \in {"Succeeded", "Failed"}
            /\ Outcome(k) = "Failed" <=> (\A j \in 1..Len(hist.results[k]) : hist.results[k][j] = "fail")
    /\ BatchFinished =>
         /\ \A k \in 1..Len(bat.event.urls) :
              /\ hist.started[k] = 1
              /\ Outcome(k) = (IF hist.results[k] = <<"ok">> THEN "Succeeded" ELSE "Failed")
         /\ [j \in 1..Len(bat.response.errors) |-> bat.response.errors[j].url]
              = UrlsWhere(bat.event.urls, 1, "Failed")
         /\ [j \in 1..Len(bat.response.results) |-> bat.response.results[j].url]
              = UrlsWhere(bat.event.urls, 1, "Succeeded")

\* the first URL used up its retries and the second was still processed
C6_Witness ==
    /\ CliFinished /\ cli.retries = 2 /\ hist.results[1] = <<"fail", "fail">>
    /\ Outcome(1) = "Failed" /\ Outcome(2) = "Succeeded"

\* C7: after a batch, totalCount is the number of input URLs, successCount the
\* number of URLs that ended Succeeded, failureCount the number that ended
\* Failed, each URL counted once; in batch_handler successful = len(results),
\* failed = len(errors) and their sum is total_urls.
C7_CountsConsistent ==
    /\ CliFinished =>
         LET n == Len(GivenUrls)
         IN /\ cli.total_urls = n
            /\ cli.success_count = NumberOf("Succeeded", n)
            /\ cli.total_urls - cli.success_count = NumberOf("Failed", n)
            /\ n > 1 => cli.summary = [printed |-> TRUE, success_count |-> cli.success_count,
                                       total_urls |-> n]
    /\ BatchFinished =>
         LET n == Len(bat.event.urls)
             r == bat.response
         IN /\ r.total_urls = n
            /\ r.successful = Len(r.results) /\ r.successful = NumberOf("Succeeded", n)
            /\ r.failed = Len(r.errors) /\ r.failed = NumberOf("Failed", n)
            /\ r.successful + r.failed = r.total_urls

\* three URLs, one of them failing all its retries: 2 successes, 1 failure, exit 1
C7_Witness ==
    /\ CliFinished /\ cli.total_urls = 3 /\ cli.success_count = 2
    /\ NumberOf("Failed", 3) = 1 /\ cli.exit = ExitFailure

\* C8: an interrupt during an attempt or a backoff sleep makes main return 130,
\* and after it no attempt is started: no retry of the current URL, no first
\* attempt of a remaining URL.
C8_InterruptStopsAttempts ==
    /\ [](hist.interrupted_at \in InterruptiblePc =>
            cli.pc = "done" /\ cli.exit = ExitInterrupted /\ op.pc \notin InFlight)
    /\ [][hist.interrupted_at \in InterruptiblePc =>
            hist'.started = hist.started /\ cli' = cli]_vars

\* interrupted in the backoff sleep of the first URL, with a retry and a URL left
C8_Witness ==
    /\ hist.interrupted_at = "sleep" /\ cli.exit = ExitInterrupted
    /\ cli.i = 1 /\ cli.total_urls > 1 /\ cli.retry_count < cli.retries

\* C9: when a batch is interrupted, the outcomes of the URLs completed before
\* the interrupt are in the summary reported for the run.
C9_SummaryOnInterrupt ==
    (entry = "cli" /\ hist.interrupted_at # "" /\ Len(GivenUrls) > 1)
    => /\ cli.summary.printed
       /\ cli.summary.success_count = NumberOf("Succeeded", Len(GivenUrls))

\* C10: a serverless request without url, or without any bucket, is answered
\* with a 4xx status, success=false and a descriptive error ("URL is required"
\* for the url), and no snapshot is attempted.
C10_MissingFieldIs4xx ==
    (entry = "lambda" /\ lam.pc = "done" /\ LambdaValidate(lam.event, env) # NoExc)
    => /\ lam.response.statusCode \in 400..499
       /\ ~lam.response.success
       /\ lam.event.url = <<>> => lam.response.error = "URL is required"
       /\ op.pc = "idle"

\* C11: lambda_handler answers every invocation with a response: a snapshot
\* that raised becomes statusCode 500 with success=false, the exception's
\* message in error and its class name in type; success is true exactly when
\* statusCode is 200.
C11_LambdaNeverRaises ==
    /\ (entry = "lambda" /\ lam.pc = "done") =>
         /\ lam.response.statusCode \in {StatusOk, StatusError}
         /\ lam.response.success <=> lam.response.statusCode = StatusOk
         /\ op.pc = "raised" =>
              /\ lam.response.statusCode \in 500..599
              /\ ~lam.response.success
              /\ lam.response.error = op.exc.msg /\ lam.response.error # ""
              /\ lam.response.type = op.exc.type /\ lam.response.type # ""
         /\ op.pc = "returned" => lam.response = OkResponse(op.result)
    /\ (entry = "lambda" /\ lam.pc = "snapshot") => op.pc \in InFlight \cup {"returned", "raised"}

\* the upload of a lambda invocation raised and the handler answered 500
C11_Witness ==
    /\ entry = "lambda" /\ lam.pc = "done" /\ op.pc = "raised"
    /\ op.exc.type \in UploadErrors /\ lam.response.statusCode = StatusError

\* C18: the remote key is normalizedPrefix + strftime(T) + extension, where
\* normalizedPrefix is empty for the empty prefix and otherwise the prefix
\* without its trailing slashes followed by one "/": "qa" and "qa/" both give
\* "qa/" + strftime(T) + ".png", the empty prefix gives no leading separator,
\* and normalising a normalised prefix changes nothing.
C18_KeyConstruction ==
    (pure.fn = "key" /\ pure.pc = "done") =>
        LET p == pure.arg.key_prefix
            k == pure.out.upload_key
            stamp == Strftime(pure.arg.timestamp)
            ext == << pure.arg.file_path[Len(pure.arg.file_path)] >>
            n == Len(k) - Len(stamp) - 1      \* tokens before the timestamp
            stem == SubSeq(k, 1, n - 1)
        IN /\ SubSeq(k, n + 1, Len(k)) = stamp \o ext
           /\ p = <<>> => (n = 0 /\ k[1] # "/")
           /\ p # <<>> =>
                /\ n >= 1 /\ k[n] = "/"
                /\ stem = <<>> \/ stem[Len(stem)] # "/"
                /\ \E m \in 0..Len(p) : p = stem \o [j \in 1..m |-> "/"]
           /\ p \in {<<"qa">>, <<"qa", "/">>} => k = <<"qa", "/">> \o stamp \o ext
           /\ NormalizePrefix(SubSeq(k, 1, n)) = SubSeq(k, 1, n)
           /\ ext = <<".png">> => pure.out.record_key = k

\* "qa//" is normalised to "qa/"
C18_Witness ==
    /\ pure.fn = "key" /\ pure.pc = "done" /\ pure.arg.key_prefix = <<"qa", "/", "/">>
    /\ pure.out.upload_key = <<"qa", "/">> \o Strftime(pure.arg.timestamp) \o <<".png">>

\* C19: validate_url returns an input that starts with http:// or https://
\* and has a host unchanged; it prepends https:// to an input without one of
\* these schemes, and what it returns has a non-empty host; every input whose
\* resulting URL has no host is rejected with a validation error.
C19_ValidateUrl ==
    (pure.fn = "validate_url" /\ pure.pc = "done") =>
        LET url == pure.arg
            resulting == IF StartsWithScheme(url) THEN url ELSE <<"https://">> \o url
        IN /\ (StartsWithScheme(url) /\ Hostname(url) # <<>>) => pure.out = Return(url)
           /\ ~pure.out.raised =>
                pure.out.value = resulting /\ Hostname(pure.out.value) # <<>>
           /\ Hostname(resulting) = <<>> =>
                pure.out.raised /\ pure.out.exc.type = "ArgumentTypeError"

\* C20: validate_s3_bucket_name rejects every name whose length is not in
\* [3,63] or that has a character other than a lowercase letter, a digit or a
\* hyphen, or that does not start and end with a letter or digit; it returns
\* every other name unchanged.
C20_ValidateBucketName ==
    (pure.fn = "validate_s3_bucket_name" /\ pure.pc = "done") =>
        LET bucket == pure.arg
            compliant ==
                /\ Len(bucket) >= MinBucketLen /\ Len(bucket) <= MaxBucketLen
                /\ \A j \in 1..Len(bucket) : bucket[j] \in Lower \cup Digits \cup {"-"}
                /\ bucket[1] # "-" /\ bucket[Len(bucket)] # "-"
        IN IF compliant THEN pure.out = Return(bucket)
           ELSE pure.out.raised /\ pure.out.exc.type = "ArgumentTypeError"

\* C12: a command line without URL, or with an argument that fails validation
\* (an invalid URL such as not-a-url, a malformed bucket name, a non-positive
\* numeric option), makes main return 1: no other status, no exception leaving
\* main, and no capture attempted.
C12_InvalidArgsExitOne ==
    LET argv == cli.argv
        noUrl == argv.url = Absent /\ (~argv.url_file.given \/ ~argv.url_file.found
                                        \/ parse_urls_from_file(argv.url_file).value = <<>>)
        badUrl == argv.url # Absent /\ (argv.url = <<"not-a-url">> \/ validate_url(argv.url).raised)
        badBucket == argv.bucket # Absent /\ validate_s3_bucket_name(argv.bucket).raised
        badNumber == \/ argv.retries # Absent /\ validate_positive_int(argv.retries).raised
                     \/ argv.parallel # Absent /\ validate_positive_int(argv.parallel).raised
    IN (entry = "cli" /\ cli.pc \notin {"start", "parse"} /\ (noUrl \/ badUrl \/ badBucket \/ badNumber)) =>
          /\ cli.pc = "done" /\ cli.exit = ExitFailure
          /\ \A k \in Positions : hist.started[k] = 0
          /\ op.pc = "idle"

\* C13: the URLs of a CLI batch are processed one after the other in input
\* order, whatever --parallel says: every URL given is processed, an attempt
\* is made only for the URL the loop stands at, and every earlier URL has
\* then seen the end of all its attempts.
C13_SequentialInOrder ==
    /\ entry = "cli" =>
         \A k \in Positions :
            /\ hist.started[k] > 0 => (k <= cli.i /\ cli.urls[k] = GivenUrls[k])
            /\ hist.started[k] > Len(hist.results[k]) =>
                 (k = cli.i /\ hist.started[k] = Len(hist.results[k]) + 1)
            /\ (k < cli.i /\ hist.interrupted_at = "") =>
                 (Outcome(k) # "Pending" /\ hist.started[k] = Len(hist.results[k]))
    /\ CliFinished => \A k \in 1..Len(GivenUrls) : hist.started[k] >= 1

\* three URLs with --parallel 4: the second is being retried, the third untouched
C13_Witness ==
    /\ entry = "cli" /\ cli.parallel = 4 /\ cli.i = 2 /\ hist.started[2] = 2
    /\ Outcome(1) = "Failed" /\ hist.started[3] = 0

\* C14: within one snapshot operation the upload is called only after the
\* render has returned and the size has been read, never after a failed render
\* or size read, and the cleanup of the success path comes only after the
\* upload has returned.
C14_StageOrder ==
    LET t == op.stages
    IN /\ \A j \in 1..Len(t) :
            /\ t[j] = "upload called" => (j = 3 /\ t[1] = "render" /\ t[2] = "size")
            /\ t[j] \in {"render failed", "size failed"} =>
                 \A i \in 1..Len(t) : t[i] # "upload called"
            /\ t[j] = "cleanup" => (j > 1 /\ t[j - 1] = "upload returned")
       /\ op.upload_key # <<>> => (op.local_path # <<>> /\ op.file_size >= 0)
       /\ op.pc \in {"upload", "finish", "returned"} => op.file_size >= 0

\* a call that went through all stages
C14_Witness ==
    op.pc = "returned"
    /\ op.stages = <<"render", "size", "upload called", "upload returned", "cleanup">>

C15_BrowserClosed ==
    /\ shot.closes <= 1
    /\ shot.browser = "none" => (shot.closes = 0 /\ shot.page = "none")
    /\ (shot.pc \in {"returned", "raised"} /\ shot.browser # "none") =>
         /\ shot.browser = "closed" /\ shot.page # "open" /\ shot.closes = 1
    /\ shot.pc = "returned" =>
         (shot.browser = "closed" /\ shot.result = shot.output_path /\ Exists(fs, shot.result))

\* the navigation timed out with browser and page open: the call raised, both are closed
C15_Witness ==
    /\ shot.pc = "raised" /\ shot.exc.type = "TimeoutError" /\ ~shot.navigated
    /\ shot.page = "closed" /\ shot.browser = "closed" /\ shot.closes = 1

\* C16: of the calls of take_snapshot_to_s3 in flight together with the same
\* temp_dir, each one that has rendered its image and has neither deleted it
\* nor had its upload return still finds at its staged path the file it
\* rendered: no other call has overwritten or deleted it.
C16_StagedFileOwned ==
    \A p \in DOMAIN ops :
        ops[p].pc \in {"rendered", "stat", "upload"} =>
            /\ Exists(fs, ops[p].local_path)
            /\ fs[ops[p].local_path].url = ops[p].url

\* C21: per key, a command-line flag overrides the environment variable,
\* which overrides the config file, which overrides the built-in default;
\* merge_config returns the args value for every key of args and the config
\* value for every other key, and its config argument is as it was.
C21_ConfigPrecedence ==
    LET environ == pure.arg.environ
        file_layer == pure.out.value.files
        data == pure.out.value.data
        from_env == (IF "PS3S_BUCKET" \in DOMAIN environ THEN {"bucket"} ELSE {})
                    \cup (IF "PS3S_RETRIES" \in DOMAIN environ /\ environ.PS3S_RETRIES = <<"5">>
                          THEN {"retries"} ELSE {})
                    \cup (IF "PS3S_VERBOSE" \in DOMAIN environ THEN {"verbose"} ELSE {})
        config == _load_from_env(_load_from_files(EmptyMap, pure.arg.config_files), environ)
        defaults == [bucket |-> <<>>, retries |-> 1, verbose |-> FALSE]
    IN /\ (pure.pc = "done" /\ pure.fn = "merge_config") =>
            /\ DOMAIN pure.out.value.result = DOMAIN pure.arg.config \cup DOMAIN pure.arg.args_dict
            /\ \A k \in DOMAIN pure.out.value.result :
                 pure.out.value.result[k] = IF k \in DOMAIN pure.arg.args_dict
                                            THEN pure.arg.args_dict[k] ELSE pure.arg.config[k]
            /\ pure.out.value.config = pure.arg.config
       /\ (pure.pc = "done" /\ pure.fn = "Config") =>
            /\ DOMAIN data = DOMAIN file_layer \cup from_env
            /\ "bucket" \in from_env => data.bucket = environ.PS3S_BUCKET
            /\ "retries" \in from_env => data.retries = 5
            /\ "verbose" \in from_env => data.verbose = (environ.PS3S_VERBOSE = <<"YES">>)
            /\ \A k \in DOMAIN file_layer \ from_env : data[k] = file_layer[k]
       /\ (pure.pc = "done" /\ pure.fn = "main") =>
            /\ ~pure.out.raised
            /\ \A k \in DOMAIN defaults :
                 pure.out.value[k] = IF k \in DOMAIN pure.arg.flags THEN pure.arg.flags[k]
                                     ELSE IF k \in DOMAIN config THEN config[k]
                                     ELSE defaults[k]

\* C22: of the three candidate files, in their fixed order, the first that
\* exists is the only one that gives values to the configuration.
C22_FirstExistingWins ==
    (pure.pc = "done" /\ pure.fn = "Config") =>
        LET config_files == pure.arg.config_files
            existing == {i \in DOMAIN config_files : config_files[i].exists}
            first == CHOOSE i \in existing : \A j \in existing : i <= j
        IN pure.out.value.files =
              IF existing # {} /\ config_files[first].valid THEN config_files[first].data
              ELSE EmptyMap

C24_ErrorNamesStage ==
    LET failed == IF op.stages # <<>> /\ op.stages[Len(op.stages)] = "render failed" THEN "render"
                  ELSE IF op.stages # <<>> /\ op.stages[Len(op.stages)] = "upload failed" THEN "upload"
                  ELSE "none"
    IN (op.pc = "raised" /\ failed # "none") =>
          /\ failed = "render" => op.exc.type = "TimeoutError"
          /\ failed = "upload" => op.exc.type \in UploadErrors \cup {"FileNotFoundError"}
          /\ "stage" \in DOMAIN op.exc /\ op.exc.stage = failed

\* C25: a CLI run without bucket is a local-mode run: every URL given is
\* attempted, an attempt calls the renderer and never the uploader, a URL is
\* counted as succeeded only with its output file on disk after the render,
\* and a single URL that succeeded makes main return 0.
C25_LocalMode ==
    (entry = "cli" /\ GivenUrls # <<>> /\ ParseArgs(cli.argv).value.bucket = <<>>) =>
        /\ op.pc = "idle" /\ hist.puts = <<>> /\ s3 = EmptyMap
        /\ \A k \in 1..Len(GivenUrls) :
             (Outcome(k) = "Succeeded" /\ k = cli.i) => Exists(fs, cli.result_path)
        /\ CliFinished =>
             /\ cli.pc = "done"
             /\ \A k \in 1..Len(GivenUrls) : hist.started[k] >= 1
             /\ (Len(GivenUrls) = 1 /\ Outcome(1) = "Succeeded") => cli.exit = ExitSuccess

\* one URL, no bucket, no --output: the file has the default name and main returned 0
C25_Witness ==
    /\ CliFinished /\ cli.bucket = <<>> /\ cli.total_urls = 1 /\ cli.output = <<>>
    /\ Outcome(1) = "Succeeded" /\ cli.exit = ExitSuccess
    /\ \E now \in 0..MaxClock : cli.result_path = ScreenshotPath(<<>>, now)

\* C27: the CLI sleeps only between a failed attempt and the retry after it:
\* never before the first attempt, after a success or after the last failed
\* attempt, so a URL that took k attempts has k-1 sleeps behind it, none with
\* --retries 1.
C27_BackoffBetweenAttempts ==
    /\ entry = "cli" =>
         \A k \in Positions :
            LET slept == hist.sleeps[k] + (IF k = cli.i /\ cli.pc = "sleep" THEN 1 ELSE 0)
            IN /\ hist.started[k] = 0 => slept = 0
               /\ hist.started[k] >= 1 => hist.sleeps[k] \in {hist.started[k] - 1, hist.started[k]}
               /\ (hist.started[k] >= 1 /\ hist.sleeps[k] = hist.started[k]) =>
                    (k = cli.i /\ Outcome(k) = "Pending" /\ hist.started[k] < cli.retries
                     /\ hist.results[k][hist.started[k]] = "fail")
               /\ (k = cli.i /\ cli.pc = "sleep") =>
                    (hist.results[k][hist.started[k]] = "fail" /\ hist.started[k] < cli.retries)
               /\ Outcome(k) # "Pending" => slept = hist.started[k] - 1
               /\ cli.retries = 1 => slept = 0
    /\ CliFinished =>
         \A k \in 1..Len(GivenUrls) :
            hist.started[k] >= 1 /\ hist.sleeps[k] = hist.started[k] - 1

\* fail, fail, succeed: three attempts and two sleeps
C27_Witness ==
    /\ entry = "cli" /\ hist.results[1] = <<"fail", "fail", "ok">>
    /\ hist.sleeps[1] = 2 /\ Outcome(1) = "Succeeded"

\* C26: removing the staged file when it is already gone does not raise, on
\* the success path and on the error path, and cleaning up twice leaves the
\* files as cleaning up once does.
C26_CleanupIdempotent ==
    /\ [](LET once == SuccessCleanup(fs, op.temp_file, TRUE)
              handled == ErrorCleanup(fs, op.temp_file)
          IN /\ SuccessCleanup(once, op.temp_file, TRUE) = once
             /\ ErrorCleanup(handled, op.temp_file) = handled)
    /\ [][/\ (op.pc = "finish" /\ op' # op /\ ~Exists(fs, op.local_path)) =>
               (op'.pc = "returned" /\ fs' = fs)
          /\ (op.pc \in {"stat", "upload"} /\ op'.pc = "raised" /\ ~Exists(fs, op.temp_file)) =>
               (fs' = fs /\ op'.stages[Len(op'.stages)] \in {"size failed", "upload failed"})]_vars

\* the staged file was gone when its size was read: the handler found nothing
\* to remove and the error of the size read reached the caller
C26_Witness ==
    /\ op.pc = "raised" /\ op.exc = Exc("FileNotFoundError", "No such file or directory")
    /\ op.stages = <<"render", "size failed">> /\ ~Exists(fs, op.temp_file)

\* C28: a call with cleanup_local false that succeeds leaves the staged file
\* in place and unchanged; a call that fails at any step removes it whatever
\* cleanup_local is.
C28_CleanupLocalFalse ==
    /\ []((op.pc = "raised" /\ op.stages # <<>>) => ~Exists(fs, op.temp_file))
    /\ [][/\ (op.pc \in {"stat", "upload", "finish"} /\ ~op.cleanup_local /\ op' # op
              /\ op'.pc \in {"upload", "finish", "returned"}) => fs' = fs
          /\ (op.pc = "finish" /\ op'.pc = "returned" /\ ~op.cleanup_local
              /\ Exists(fs, op.temp_file)) =>
                (Exists(fs', op.temp_file) /\ fs'[op.temp_file] = Image(op.url))]_vars

\* the call returned its record and the staged image is still on disk
C28_Witness ==
    /\ op.pc = "returned" /\ ~op.cleanup_local /\ op.result # NoRecord
    /\ Exists(fs, op.temp_file) /\ fs[op.temp_file] = Image(op.url)

\* C29: batch_handler answers 200 with success true iff at least one URL of
\* the batch succeeded, and 500 with success false iff none succeeded or the
\* request was rejected.
C29_BatchStatus ==
    (entry = "batch" /\ bat.pc = "done") =>
        LET r == bat.response
            rejected == BatchValidate(bat.event, env) # NoExc
            some == ~rejected /\ \E k \in 1..Len(bat.event.urls) : Outcome(k) = "Succeeded"
        IN /\ (r.statusCode = StatusOk /\ r.success) <=> some
           /\ (r.statusCode = StatusError /\ ~r.success) <=> ~some
           /\ rejected => (r.error # "" /\ r.results = <<>> /\ hist.puts = <<>>)

\* a batch of three with two failures and one success is answered with 200
C29_Witness ==
    /\ entry = "batch" /\ bat.pc = "done" /\ Len(bat.event.urls) = 3
    /\ bat.response.statusCode = StatusOk /\ bat.response.success
    /\ bat.response.successful = 1 /\ bat.response.failed = 2

\* C30: in a batch the URL at position i is uploaded under the prefix of the
\* request followed by batch-00i-, so uploads of two positions never have the
\* same key and never replace one another, also within one second.
C30_BatchKeysDistinct ==
    entry = "batch" =>
        /\ \A a \in DOMAIN hist.puts :
             LET i == CHOOSE k \in 1..Len(bat.event.urls) : bat.event.urls[k] = hist.puts[a].url
             IN hist.puts[a].key_prefix = bat.key_prefix \o <<"batch-", "0", "0", Digit[i], "-">>
        /\ \A a, b \in DOMAIN hist.puts : a # b => hist.puts[a].s3_key # hist.puts[b].s3_key
        /\ Cardinality(DOMAIN s3) = Len(hist.puts)

\* two URLs of one batch uploaded within the same second, two objects stored
C30_Witness ==
    /\ entry = "batch" /\ Len(hist.puts) >= 2
    /\ Strftime(hist.puts[1].timestamp) = Strftime(hist.puts[2].timestamp)
    /\ hist.puts[1].s3_key # hist.puts[2].s3_key /\ Cardinality(DOMAIN s3) >= 2

====
